---- MODULE Spec2Model ----
(***************************************************************************)
(* A model of the redscript-io script bundle library: the in-memory        *)
(* ScriptBundle (four string pools and the definition vector), the writer  *)
(* (WriteableBundle::try_write), the reader (BundleReader, ItemReader,     *)
(* ScriptBundle::from_reader) and the control-flow offsets of instr.rs.    *)
(* Files are sequences of bytes (0..255); a 32-bit word is the sequence of *)
(* its four little-endian bytes, so that values up to 2^32 - 1 are exact.  *)
(***************************************************************************)
EXTENDS Integers, Sequences, FiniteSets, TLC

VARIABLES
    cnames,       \* ScriptBundle.cnames: the strings in index order
    tdb_ids,      \* ScriptBundle.tdb_ids
    resources,    \* ScriptBundle.resources
    strings,      \* ScriptBundle.strings
    definitions,  \* ScriptBundle.definitions
    string_data,  \* WriteableBundle.string_data, once into_writeable has run
    phase,        \* "bundle": a ScriptBundle is live; "writeable": it was moved
                  \* into a WriteableBundle; "bytes": to_bytes has returned
    out,          \* the Vec<u8> the last to_bytes returned
    input,        \* the bytes the last from_bytes was given
    prev,         \* the bundle held by the WriteableBundle that produced `out`
    result,       \* what the last operation returned
    history,      \* how the live bundle came about
    reads,        \* number of successful from_bytes since the bundle was
                  \* built or last edited
    instr,        \* the control-flow operand last built (instr.rs)
    iter          \* the ItemIter a caller of the reader is driving

vars == <<cnames, tdb_ids, resources, strings, definitions, string_data, phase,
          out, input, prev, result, history, reads, instr, iter>>

bundleVars == <<cnames, tdb_ids, resources, strings, definitions>>

-----------------------------------------------------------------------------
(* Bounds of the model. *)

\* Most strings held by the four pools together.
MaxStrings == 2
\* Most definitions in the vector, the sentinel included.
MaxDefs == 2
\* Most successful reads of a bundle that is written and read unedited.
MaxReads == 2

-----------------------------------------------------------------------------
(* Bytes and 32-bit words. *)

Byte == 0..255

RECURSIVE XorBits(_, _, _)
XorBits(a, b, n) ==
    IF n = 0 THEN 0
    ELSE ((a + b) % 2) + 2 * XorBits(a \div 2, b \div 2, n - 1)

XorNibble == [a \in 0..15 |-> [b \in 0..15 |-> XorBits(a, b, 4)]]

XorByte(a, b) ==
    XorNibble[a % 16][b % 16] + 16 * XorNibble[a \div 16][b \div 16]

XorWord(v, w) ==
    <<XorByte(v[1], w[1]), XorByte(v[2], w[2]),
      XorByte(v[3], w[3]), XorByte(v[4], w[4])>>

\* to_le_bytes of a u32 below 2^31
U32(n) ==
    <<n % 256, (n \div 256) % 256, (n \div 65536) % 256, (n \div 16777216) % 256>>

\* a + b on u32 words: the wrapped sum and whether it overflowed
WordAdd(a, b) ==
    LET s1 == a[1] + b[1]
        s2 == a[2] + b[2] + (s1 \div 256)
        s3 == a[3] + b[3] + (s2 \div 256)
        s4 == a[4] + b[4] + (s3 \div 256)
    IN  [word |-> <<s1 % 256, s2 % 256, s3 % 256, s4 % 256>>,
         overflow |-> s4 >= 256]

\* `word as usize` used as a position in a buffer of `len` bytes (len < 2^16):
\* every position past the buffer is reported as len + 1
WordPos(w, len) ==
    IF w[3] # 0 \/ w[4] # 0 THEN len + 1
    ELSE LET p == w[1] + 256 * w[2] IN IF p > len THEN len + 1 ELSE p

\* index < count for a small index and a count word
IndexBelow(index, count) ==
    count[3] # 0 \/ count[4] # 0 \/ index < count[1] + 256 * count[2]

\* bytes[from..to] of a 0-based slice
SubSeqFrom(bytes, from, to) == SubSeq(bytes, from + 1, to)

RECURSIVE Flatten(_)
Flatten(seqs) ==
    IF seqs = <<>> THEN <<>> ELSE Head(seqs) \o Flatten(Tail(seqs))

Zeros(n) == SubSeq([i \in 1..n |-> 0], 1, n)

-----------------------------------------------------------------------------
(* CRC-32 (crc32fast::hash): reflected, polynomial 0xEDB88320. *)

CrcPoly == <<32, 131, 184, 237>>

ShiftRight1(w) ==
    <<(w[1] \div 2) + 128 * (w[2] % 2), (w[2] \div 2) + 128 * (w[3] % 2),
      (w[3] \div 2) + 128 * (w[4] % 2), w[4] \div 2>>

RECURSIVE CrcBit(_, _)
CrcBit(w, n) ==
    IF n = 0 THEN w
    ELSE CrcBit(IF w[1] % 2 = 1 THEN XorWord(ShiftRight1(w), CrcPoly)
                ELSE ShiftRight1(w), n - 1)

CrcTable == [b \in 0..255 |-> CrcBit(<<b, 0, 0, 0>>, 8)]

RECURSIVE CrcUpdate(_, _, _, _)
CrcUpdate(crc, bytes, i, n) ==
    IF n = 0 \/ i > Len(bytes) THEN crc
    ELSE LET c == XorWord(CrcTable[XorByte(crc[1], bytes[i])],
                          <<crc[2], crc[3], crc[4], 0>>)
         IN  IF c[1] >= 0 THEN CrcUpdate(c, bytes, i + 1, n - 1) ELSE c

RECURSIVE CrcBlocks(_, _, _)
CrcBlocks(crc, bytes, i) ==
    IF i > Len(bytes) THEN crc
    ELSE LET c == CrcUpdate(crc, bytes, i, 16)
         IN  IF c[1] >= 0 THEN CrcBlocks(c, bytes, i + 16) ELSE c

crc32(bytes) ==
    XorWord(CrcBlocks(<<255, 255, 255, 255>>, bytes, 1), <<255, 255, 255, 255>>)

-----------------------------------------------------------------------------
(* Strings (Str) are the sequences of their UTF-8 bytes. *)

\* The strings the callers hand to add: "", "a" and "a\0b".
StrInputs == {<<>>, <<97>>, <<97, 0, 98>>}

Some(v) == <<v>>
None == <<>>

-----------------------------------------------------------------------------
(* StringPool: an IndexSet<Str>, kept as the sequence of its members.      *)

Contains(set, s) == \E i \in 1..Len(set) : set[i] = s

\* 0-based position of a member
PositionOf(set, s) == (CHOOSE i \in 1..Len(set) : set[i] = s) - 1

\* a faulty insert_full: the string is appended even when the set holds it
insert_full_always(set, s) ==
    [index |-> Len(set), inserted |-> TRUE, set |-> Append(set, s)]

\* IndexSet::insert_full
insert_full(set, s) ==
    IF Contains(set, s)
    THEN [index |-> PositionOf(set, s), inserted |-> FALSE, set |-> set]
    ELSE [index |-> Len(set), inserted |-> TRUE, set |-> Append(set, s)]

\* StringPool::add: the pool afterwards and the PoolIndex returned
StringPool_add(pool, s) ==
    LET r == insert_full(pool, s) IN [pool |-> r.set, index |-> r.index]

\* StringPool::get_index
StringPool_get_index(pool, s) ==
    IF Contains(pool, s) THEN Some(PositionOf(pool, s)) ELSE None

\* StringPool::len
StringPool_len(pool) == Len(pool)

\* PoolItem::get of a string index (impl_string_item)
string_item_get(pool, index) ==
    IF index < Len(pool) THEN Some(pool[index + 1]) ELSE None

\* StringPool::into_owned: every Str owned, collected again in order
RECURSIVE StringPool_into_owned(_)
StringPool_into_owned(pool) ==
    IF pool = <<>> THEN <<>>
    ELSE insert_full(StringPool_into_owned(SubSeq(pool, 1, Len(pool) - 1)),
                     pool[Len(pool)]).set

\* FromIterator<&str> for StringPool: extend an empty IndexSet
RECURSIVE StringPool_from_iter(_)
StringPool_from_iter(items) ==
    IF items = <<>> THEN <<>>
    ELSE insert_full(StringPool_from_iter(SubSeq(items, 1, Len(items) - 1)),
                     items[Len(items)]).set

-----------------------------------------------------------------------------
(* Definitions. A definition carries its variant (kind), the name and      *)
(* parent its header records, and its payload as encoded bytes.            *)

DefKinds ==
    <<"Type", "Class", "EnumMember", "Enum", "Function", "Parameter", "Local",
      "Field", "SourceFile">>

KindTag(kind) == CHOOSE t \in 1..Len(DefKinds) : DefKinds[t] = kind

Definition_UNDEFINED ==
    [kind |-> "Undefined", name |-> 0, parent |-> 0, body |-> <<>>]

\* The definitions the callers hand to define and write through get_item_mut.
DefInputs ==
    { [kind |-> "Type", name |-> 0, parent |-> 0, body |-> <<7>>],
      [kind |-> "Function", name |-> 1, parent |-> 1, body |-> <<31, 7, 0>>],
      [kind |-> "Function", name |-> 0, parent |-> 1, body |-> <<>>] }

\* a faulty Default: the derived one, whose definition vector is empty
ScriptBundle_default_derived ==
    [cnames |-> <<>>, tdb_ids |-> <<>>, resources |-> <<>>, strings |-> <<>>,
     definitions |-> <<>>]

\* Default for ScriptBundle
ScriptBundle_default ==
    [cnames |-> <<>>, tdb_ids |-> <<>>, resources |-> <<>>, strings |-> <<>>,
     definitions |-> <<Definition_UNDEFINED>>]

\* a faulty define: the index is taken after the push
ScriptBundle_define_after_push(defs, def) ==
    [definitions |-> Append(defs, def),
     index |-> Len(defs) + 1,
     panic |-> FALSE]

\* ScriptBundle::define: push, then NzPoolIndex::new(index).expect(..)
ScriptBundle_define(defs, def) ==
    [definitions |-> Append(defs, def),
     index |-> Len(defs),
     panic |-> Len(defs) = 0]

\* a faulty get: the variant stored at the index is not looked at
def_item_get_any_variant(defs, kind, index) ==
    IF index < Len(defs) THEN Some(defs[index + 1]) ELSE None

\* PoolItem::get of a typed definition index (impl_def_item)
def_item_get(defs, kind, index) ==
    IF index < Len(defs) /\ defs[index + 1].kind = kind
    THEN Some(defs[index + 1]) ELSE None

\* PoolItemMut::get_mut of a typed definition index (impl_def_item)
def_item_get_mut(defs, kind, index) ==
    IF index < Len(defs) /\ defs[index + 1].kind = kind
    THEN Some(defs[index + 1]) ELSE None

\* ops::Index and ops::IndexMut for ScriptBundle, on what I::get or
\* I::get_mut returned for an index of the given output type
ScriptBundle_index(got, type) ==
    IF got = None
    THEN [status |-> "panic", err |-> <<"unresolved", type, "index">>,
          value |-> <<>>]
    ELSE [status |-> "ok", err |-> "none", value |-> got[1]]

\* ScriptBundle::into_owned
ScriptBundle_into_owned(b) ==
    [cnames |-> StringPool_into_owned(b.cnames),
     tdb_ids |-> StringPool_into_owned(b.tdb_ids),
     resources |-> StringPool_into_owned(b.resources),
     strings |-> StringPool_into_owned(b.strings),
     definitions |-> b.definitions]

Bundle ==
    [cnames |-> cnames, tdb_ids |-> tdb_ids, resources |-> resources,
     strings |-> strings, definitions |-> definitions]

NoBundle ==
    [cnames |-> <<>>, tdb_ids |-> <<>>, resources |-> <<>>, strings |-> <<>>,
     definitions |-> <<>>]

-----------------------------------------------------------------------------
(* The file format: header, table descriptors, definition headers.         *)

Header_MAGIC == <<82, 69, 68, 83>>
Header_SIZE == 104
Header_SUPPORTED_VERSION == 14
\* Definition::HEADER_SIZE, <Definition as BundleItem>::HEADER_SIZE
Definition_HEADER_SIZE == 20
\* <&str as BundleItem>::HEADER_SIZE, mem::size_of::<u32>()
Str_HEADER_SIZE == 4
\* the crc field of header_for_hash, 0xDEADBEEF
CrcSentinel == <<239, 190, 173, 222>>
\* the segments field the writer stamps
Segments == 7

\* TableHeader::new
TableHeader_new(offset, count, bytes) ==
    [offset |-> offset, count |-> count, hash |-> crc32(bytes)]

\* TryWrite for TableHeader (derived): offset, count, hash
TableHeader_bytes(t) == U32(t.offset) \o U32(t.count) \o t.hash

\* TryWrite for Header (derived), the fields in declaration order
Header_bytes(h) ==
    h.magic \o U32(h.version) \o U32(h.flags) \o h.timestamp \o U32(h.build)
    \o h.crc \o U32(h.segments)
    \o TableHeader_bytes(h.string_data) \o TableHeader_bytes(h.cnames)
    \o TableHeader_bytes(h.tweakdb_ids) \o TableHeader_bytes(h.resources)
    \o TableHeader_bytes(h.definitions) \o TableHeader_bytes(h.strings)

\* Timestamp::new(): all bit fields zero
Timestamp_new == Zeros(8)

\* DefinitionHeader::from_defintion
DefinitionHeader_from_defintion(def, size, pos) ==
    [name |-> def.name, parent |-> def.parent, size |-> size, offset |-> pos,
     kind |-> KindTag(def.kind)]

\* TryWrite for DefinitionHeader: name, parent, size, offset, kind, padding
DefinitionHeader_bytes(h) ==
    U32(h.name) \o U32(h.parent) \o U32(h.size) \o U32(h.offset)
    \o <<h.kind, 0, 0, 0>>

\* DefinitionHeader::default()
DefinitionHeader_default == Zeros(Definition_HEADER_SIZE)

\* TryWrite for Definition: the payload bytes
Definition_bytes(def) == def.body

\* Measure for Definition
Definition_measure(def) == Len(def.body)

-----------------------------------------------------------------------------
(* StringData: the write-time map from each distinct string to its offset  *)
(* in the blob (dedup, in insertion order) and the blob's length.          *)

StringData_empty == [dedup |-> <<>>, length |-> 0]

HasKey(dedup, s) == \E i \in 1..Len(dedup) : dedup[i].key = s

\* IndexMap::get
DedupGet(dedup, s) == (CHOOSE e \in {dedup[i] : i \in 1..Len(dedup)} : e.key = s).pos

\* a faulty insert: no look-up in dedup, every string is given a new place
StringData_insert_again(sd, string) ==
    [dedup |-> Append(sd.dedup, [key |-> string, pos |-> sd.length]),
     length |-> sd.length + Len(string) + 1]

\* Extend<Str> for StringData, one string
StringData_insert(sd, string) ==
    IF HasKey(sd.dedup, string) THEN sd
    ELSE [dedup |-> Append(sd.dedup, [key |-> string, pos |-> sd.length]),
          length |-> sd.length + Len(string) + 1]

\* Extend<Str> for StringData
RECURSIVE StringData_extend(_, _)
StringData_extend(sd, items) ==
    IF items = <<>> THEN sd
    ELSE StringData_extend(StringData_insert(sd, Head(items)), Tail(items))

\* ScriptBundle::into_writeable: the StringData of the four pools chained
ScriptBundle_into_writeable(b) ==
    StringData_extend(StringData_empty,
                      b.cnames \o b.tdb_ids \o b.resources \o b.strings)

-----------------------------------------------------------------------------
(* The writer. A cursor is the buffer, the offset and the error if any.    *)

\* `data` copied into the buffer at the 0-based position pos
Put(bytes, pos, data) ==
    SubSeq(bytes, 1, pos) \o data \o SubSeq(bytes, pos + Len(data) + 1, Len(bytes))

\* BytesExt::write at a cursor: fails when the data does not fit
bytes_write(w, data) ==
    IF w.err # "none" THEN w
    ELSE IF w.offset > Len(w.bytes) THEN [w EXCEPT !.err = "BadOffset"]
    ELSE IF w.offset + Len(data) > Len(w.bytes) THEN [w EXCEPT !.err = "Incomplete"]
    ELSE [bytes |-> Put(w.bytes, w.offset, data),
          offset |-> w.offset + Len(data), err |-> "none"]

\* TryWrite for &str with Delimiter(0): the bytes, then the delimiter
Str_bytes(s) == s \o <<0>>

\* try_write, lines 447-449: every key of dedup, in order
BlobBytes(sd) == Flatten([i \in 1..Len(sd.dedup) |-> Str_bytes(sd.dedup[i].key)])

\* the table descriptor of the bytes written between pos and the cursor
TableOf(pos, count, w) ==
    IF w.err # "none" THEN <<>>
    ELSE TableHeader_new(pos, count, SubSeqFrom(w.bytes, pos, w.offset))

\* the writer's progress: the cursor, the descriptors made so far (in the
\* order string_data, cnames, tweakdb_ids, resources, strings), where the
\* definition headers start and where the next one goes
Progress(w, tables, headers_start, headers_offset) ==
    [w |-> w, tables |-> tables, headers_start |-> headers_start,
     headers_offset |-> headers_offset]

\* try_write, lines 442-455: skip the header, write the blob, describe it
write_string_data(wb, buf) ==
    Progress(bytes_write([bytes |-> buf, offset |-> Header_SIZE, err |-> "none"],
                         BlobBytes(wb.string_data)),
             <<>>, 0, 0)

string_data_table(wb, acc) ==
    [acc EXCEPT !.tables = <<TableOf(Header_SIZE, wb.string_data.length, acc.w)>>]

\* StringPool::write: the offset of every string of the pool, then the
\* descriptor of the bytes just written
StringPool_entries(pool, sd) ==
    Flatten([i \in 1..Len(pool) |-> U32(DedupGet(sd.dedup, pool[i]))])

StringPool_described(pos, pool, acc, w) ==
    [acc EXCEPT !.w = w, !.tables = Append(@, TableOf(pos, Len(pool), w))]

StringPool_write(acc, pool, sd) ==
    StringPool_described(acc.w.offset, pool, acc,
                         bytes_write(acc.w, StringPool_entries(pool, sd)))

\* a faulty skip: no room is left for the definition headers
skip_no_definition_headers(wb, acc) ==
    [acc EXCEPT !.headers_start = acc.w.offset,
                !.headers_offset = acc.w.offset]

\* try_write, lines 470-472: skip definition headers
skip_definition_headers(wb, acc) ==
    [acc EXCEPT !.headers_start = acc.w.offset,
                !.headers_offset = acc.w.offset,
                !.w.offset = @ + Len(wb.bundle.definitions) * Definition_HEADER_SIZE]

\* bytes.write(&mut headers_offset, header): a write at the header cursor
write_header(acc, hw) ==
    [acc EXCEPT !.w.bytes = hw.bytes, !.w.err = hw.err,
                !.headers_offset = hw.offset]

header_cursor(acc) ==
    [bytes |-> acc.w.bytes, offset |-> acc.headers_offset, err |-> acc.w.err]

\* try_write, line 480: the default header at slot 0
write_default_header(acc) ==
    write_header(acc, bytes_write(header_cursor(acc), DefinitionHeader_default))

\* try_write, lines 484-487: the header of the payload written from pos
patch_header(pos, def, acc) ==
    write_header(acc,
        bytes_write(header_cursor(acc),
            DefinitionHeader_bytes(
                DefinitionHeader_from_defintion(def, acc.w.offset - pos, pos))))

\* a faulty write_definition: pos is taken one byte before the payload
write_definition_early(acc, def) ==
    patch_header(acc.w.offset - 1, def,
                 [acc EXCEPT !.w = bytes_write(acc.w, Definition_bytes(def))])

\* try_write, lines 482-487: one payload, then its header
write_definition(acc, def) ==
    patch_header(acc.w.offset, def,
                 [acc EXCEPT !.w = bytes_write(acc.w, Definition_bytes(def))])

\* try_write, lines 481-488: every definition but the first
RECURSIVE write_definitions(_, _, _)
write_definitions(acc, defs, i) ==
    IF i > Len(defs) \/ acc.w.err # "none" THEN acc
    ELSE write_definitions(write_definition(acc, defs[i]), defs, i + 1)

\* try_write, lines 496-510
header_for_hash(acc, definitions_table) ==
    [magic |-> Header_MAGIC,
     version |-> Header_SUPPORTED_VERSION,
     flags |-> 0,
     timestamp |-> Timestamp_new,
     build |-> 0,
     crc |-> CrcSentinel,
     segments |-> Segments,
     string_data |-> acc.tables[1],
     cnames |-> acc.tables[2],
     tweakdb_ids |-> acc.tables[3],
     resources |-> acc.tables[4],
     definitions |-> definitions_table,
     strings |-> acc.tables[5]]

\* a faulty stamp: the CRC is taken with the crc field zeroed
stamped_over_zero(h) ==
    [h EXCEPT !.crc = crc32(Header_bytes([h EXCEPT !.crc = Zeros(4)]))]

\* try_write, lines 511-514
stamped(h) == [h EXCEPT !.crc = crc32(Header_bytes(h))]

\* try_write, lines 490-517: describe the definition headers, write the
\* header at 0, return the cursor
write_file_header(wb, acc) ==
    IF acc.w.err # "none"
    THEN [err |-> acc.w.err, written |-> 0, bytes |-> <<>>]
    ELSE [err |-> "none", written |-> acc.w.offset,
          bytes |-> Put(acc.w.bytes, 0,
                        Header_bytes(stamped(header_for_hash(acc,
                            TableHeader_new(acc.headers_start,
                                Len(wb.bundle.definitions),
                                SubSeqFrom(acc.w.bytes, acc.headers_start,
                                           acc.headers_offset))))))]

\* TryWrite for WriteableBundle
try_write(wb, buf) ==
    write_file_header(wb,
      write_definitions(
        write_default_header(
          StringPool_write(
            skip_definition_headers(wb,
              StringPool_write(
                StringPool_write(
                  StringPool_write(
                    string_data_table(wb, write_string_data(wb, buf)),
                    wb.bundle.cnames, wb.string_data),
                  wb.bundle.tdb_ids, wb.string_data),
                wb.bundle.resources, wb.string_data)),
            wb.bundle.strings, wb.string_data)),
        wb.bundle.definitions, 2))

RECURSIVE SumMeasure(_)
SumMeasure(defs) ==
    IF defs = <<>> THEN 0
    ELSE Definition_measure(Head(defs)) + SumMeasure(Tail(defs))

\* a faulty measure: the definition header table is not counted
measure_without_headers(wb) ==
    Header_SIZE
    + wb.string_data.length
    + Len(wb.bundle.cnames) * Str_HEADER_SIZE
    + Len(wb.bundle.tdb_ids) * Str_HEADER_SIZE
    + Len(wb.bundle.resources) * Str_HEADER_SIZE
    + Len(wb.bundle.strings) * Str_HEADER_SIZE
    + SumMeasure(wb.bundle.definitions)

\* Measure for WriteableBundle
measure(wb) ==
    Header_SIZE
    + wb.string_data.length
    + Len(wb.bundle.cnames) * Str_HEADER_SIZE
    + Len(wb.bundle.tdb_ids) * Str_HEADER_SIZE
    + Len(wb.bundle.resources) * Str_HEADER_SIZE
    + Len(wb.bundle.definitions) * Definition_HEADER_SIZE
    + Len(wb.bundle.strings) * Str_HEADER_SIZE
    + SumMeasure(wb.bundle.definitions)

\* to_bytes, lines 435-436: the buffer when try_write succeeded
written_bytes(r) ==
    IF r.err # "none"
    THEN [ok |-> FALSE, err |-> r.err, written |-> 0, bytes |-> <<>>]
    ELSE [ok |-> TRUE, err |-> "none", written |-> r.written,
          bytes |-> r.bytes]

\* WriteableBundle::to_bytes
to_bytes(wb) == written_bytes(try_write(wb, Zeros(measure(wb))))

-----------------------------------------------------------------------------
(* The reader. A read returns status "ok" with a value, "err" with the     *)
(* byte::Error, or "panic" (an arithmetic overflow in a build that checks  *)
(* overflow). `checked` says whether the build checks overflow.            *)

Ok(v) == [status |-> "ok", err |-> "none", value |-> v]
Err(e) == [status |-> "err", err |-> e, value |-> <<>>]
Panic(e) == [status |-> "panic", err |-> e, value |-> <<>>]

WordAt(bytes, pos) == SubSeq(bytes, pos + 1, pos + 4)

WordInt(w) == w[1] + 256 * w[2] + 65536 * w[3] + 16777216 * w[4]

\* TryRead for TableHeader (derived)
TableHeader_read(bytes, pos) ==
    [offset |-> WordAt(bytes, pos), count |-> WordAt(bytes, pos + 4),
     hash |-> WordAt(bytes, pos + 8)]

\* TryRead for Header (derived): Incomplete when the buffer ends early
Header_read(bytes) ==
    IF Len(bytes) < Header_SIZE THEN Err("Incomplete")
    ELSE Ok([magic |-> WordAt(bytes, 0),
             version |-> WordAt(bytes, 4),
             flags |-> WordAt(bytes, 8),
             timestamp |-> SubSeqFrom(bytes, 12, 20),
             build |-> WordAt(bytes, 20),
             crc |-> WordAt(bytes, 24),
             segments |-> WordAt(bytes, 28),
             string_data |-> TableHeader_read(bytes, 32),
             cnames |-> TableHeader_read(bytes, 44),
             tweakdb_ids |-> TableHeader_read(bytes, 56),
             resources |-> TableHeader_read(bytes, 68),
             definitions |-> TableHeader_read(bytes, 80),
             strings |-> TableHeader_read(bytes, 92)])

\* faulty checks: the version is not looked at
checked_magic_only(header, bytes) ==
    IF header.status # "ok" THEN header
    ELSE IF header.value.magic # Header_MAGIC
    THEN Err("BadInput: invalid magic number")
    ELSE Ok([header |-> header.value, contents |-> bytes])

\* BundleReader::new, lines 30-43: the checks on the header read
checked_header(header, bytes) ==
    IF header.status # "ok" THEN header
    ELSE IF header.value.magic # Header_MAGIC
    THEN Err("BadInput: invalid magic number")
    ELSE IF header.value.version # U32(Header_SUPPORTED_VERSION)
    THEN Err("BadInput: unsupported version")
    ELSE Ok([header |-> header.value, contents |-> bytes])

\* BundleReader::new
BundleReader_new(bytes) == checked_header(Header_read(bytes), bytes)

\* a u32 sum: wraps, or panics in a build that checks overflow
overflowing(r, checked) ==
    IF r.overflow /\ checked THEN Panic("attempt to add with overflow")
    ELSE Ok(r.word)

CheckedAdd(a, b, checked) == overflowing(WordAdd(a, b), checked)

\* read_at of `size` bytes at the position p: p, or the error
InBounds(p, len, size) ==
    IF p > len THEN Err("BadOffset")
    ELSE IF p + size > len THEN Err("Incomplete")
    ELSE Ok(p)

ReadAt(bytes, posWord, size) ==
    InBounds(WordPos(posWord, Len(bytes)), Len(bytes), size)

\* 1-based place of the first zero after `from`, 0 when there is none
FirstZero(bytes, from) ==
    IF \E i \in (from + 1)..Len(bytes) : bytes[i] = 0
    THEN CHOOSE i \in (from + 1)..Len(bytes) :
            bytes[i] = 0 /\ \A j \in (from + 1)..(i - 1) : bytes[j] # 0
    ELSE 0

\* str::from_utf8 on bytes that hold no multi-byte sequence
from_utf8(text) ==
    IF \E i \in 1..Len(text) : text[i] >= 128
    THEN Err("BadInput: UTF8 Error") ELSE Ok(text)

delimited(bytes, from, z) ==
    IF z = 0 THEN Err("Incomplete") ELSE from_utf8(SubSeqFrom(bytes, from, z - 1))

Str_read_at(bytes, p) ==
    IF p.status # "ok" THEN p ELSE delimited(bytes, p.value, FirstZero(bytes, p.value))

\* TryRead for &str with Delimiter(0): up to the first zero, valid UTF-8
Str_read(bytes, posWord) == Str_read_at(bytes, ReadAt(bytes, posWord, 0))

\* ItemReader::get for &str, line 619
get_str_item(reader, pos) ==
    IF pos.status # "ok" THEN pos ELSE Str_read(reader.contents, pos.value)

\* ItemReader::get for &str, line 618: pos = string_data.offset + entry
get_str_pos(reader, h, checked) ==
    IF h.status # "ok" THEN h
    ELSE get_str_item(reader,
            CheckedAdd(reader.header.string_data.offset,
                       WordAt(reader.contents, h.value), checked))

\* ItemReader::get for &str, line 617: the u32 entry at header_pos
get_str_header(reader, header_pos, checked) ==
    IF header_pos.status # "ok" THEN header_pos
    ELSE get_str_pos(reader, ReadAt(reader.contents, header_pos.value,
                                    Str_HEADER_SIZE), checked)

\* ItemReader::get for &str
ItemReader_get_str(reader, table, index, checked) ==
    get_str_header(reader,
                   CheckedAdd(table.offset, U32(index * Str_HEADER_SIZE), checked),
                   checked)

\* TryRead for DefinitionHeader
DefinitionHeader_read(bytes, p) ==
    [name |-> WordAt(bytes, p), parent |-> WordAt(bytes, p + 4),
     size |-> WordAt(bytes, p + 8), offset |-> WordAt(bytes, p + 12),
     kind |-> bytes[p + 17]]

Definition_payload(bytes, header, p) ==
    IF p.status # "ok" THEN p
    ELSE Ok([kind |-> DefKinds[header.kind],
             name |-> WordInt(header.name),
             parent |-> WordInt(header.parent),
             body |-> SubSeqFrom(bytes, p.value, p.value + WordInt(header.size))])

\* TryRead for Definition with the header as context
Definition_read(bytes, header) ==
    IF header.kind \notin 1..Len(DefKinds)
    THEN Err("BadInput: invalid definition kind")
    ELSE Definition_payload(bytes, header,
            ReadAt(bytes, header.offset, WordPos(header.size, Len(bytes))))

\* ItemReader::get for Definition, lines 617-619
get_def_header(reader, h) ==
    IF h.status # "ok" THEN h
    ELSE Definition_read(reader.contents,
                         DefinitionHeader_read(reader.contents, h.value))

get_def_at(reader, header_pos) ==
    IF header_pos.status # "ok" THEN header_pos
    ELSE get_def_header(reader, ReadAt(reader.contents, header_pos.value,
                                       Definition_HEADER_SIZE))

\* ItemReader::get for Definition
ItemReader_get_def(reader, table, index, checked) ==
    get_def_at(reader,
               CheckedAdd(table.offset, U32(index * Definition_HEADER_SIZE),
                          checked))

\* Iterator::collect::<byte::Result<_>>() over ItemIter: ItemIter::next while
\* index < count, stopping at the first item that is not Ok
RECURSIVE collect_strs(_, _, _, _, _)
collected_str(reader, table, index, acc, checked, r) ==
    IF r.status # "ok" THEN r
    ELSE collect_strs(reader, table, index + 1, Append(acc, r.value), checked)

collect_strs(reader, table, index, acc, checked) ==
    IF ~IndexBelow(index, table.count) THEN Ok(acc)
    ELSE collected_str(reader, table, index, acc, checked,
                       ItemReader_get_str(reader, table, index, checked))

pool_of(items) ==
    IF items.status # "ok" THEN items ELSE Ok(StringPool_from_iter(items.value))

\* a string table collected into a StringPool
read_pool(reader, table, checked) ==
    pool_of(collect_strs(reader, table, 0, <<>>, checked))

RECURSIVE collect_defs(_, _, _, _, _)
collected_def(reader, table, index, acc, checked, r) ==
    IF r.status # "ok" THEN r
    ELSE collect_defs(reader, table, index + 1, Append(acc, r.value), checked)

collect_defs(reader, table, index, acc, checked) ==
    IF ~IndexBelow(index, table.count) THEN Ok(acc)
    ELSE collected_def(reader, table, index, acc, checked,
                       ItemReader_get_def(reader, table, index, checked))

\* Iterator::skip(1) on ItemIter: item 0 is taken and dropped, whatever it is
skip_1(reader, table, checked) ==
    IF IndexBelow(0, table.count)
    THEN ItemReader_get_def(reader, table, 0, checked)
    ELSE Ok(<<>>)

chained(reader, table, checked, dropped) ==
    IF dropped.status = "panic" THEN dropped
    ELSE collect_defs(reader, table, 1, <<Definition_UNDEFINED>>, checked)

\* a faulty read: the sentinel is prepended and no record is skipped
read_all_definitions(reader, checked) ==
    collect_defs(reader, reader.header.definitions, 0, <<Definition_UNDEFINED>>,
                 checked)

\* iter::once(Ok(UNDEFINED)).chain(definitions().into_iter().skip(1)).collect()
read_definitions(reader, checked) ==
    chained(reader, reader.header.definitions, checked,
            skip_1(reader, reader.header.definitions, checked))

\* one field of the bundle under construction, or the first error
field_read(acc, field, r) ==
    IF r.status # "ok" THEN r ELSE Ok([acc.value EXCEPT ![field] = r.value])

pool_field(acc, field, reader, table, checked) ==
    IF acc.status # "ok" THEN acc
    ELSE field_read(acc, field, read_pool(reader, table, checked))

definitions_field(acc, reader, checked) ==
    IF acc.status # "ok" THEN acc
    ELSE field_read(acc, "definitions", read_definitions(reader, checked))

\* ScriptBundle::from_reader: the fields in order, the first error returned
from_reader(reader, checked) ==
    definitions_field(
      pool_field(
        pool_field(
          pool_field(
            pool_field(Ok(NoBundle), "cnames", reader, reader.header.cnames, checked),
            "tdb_ids", reader, reader.header.tweakdb_ids, checked),
          "resources", reader, reader.header.resources, checked),
        "strings", reader, reader.header.strings, checked),
      reader, checked)

opened(reader, checked) ==
    IF reader.status # "ok" THEN reader ELSE from_reader(reader.value, checked)

\* ScriptBundle::from_bytes
from_bytes(bytes, checked) == opened(BundleReader_new(bytes), checked)

-----------------------------------------------------------------------------
(* The byte buffers handed to from_bytes: the bytes a to_bytes returned,   *)
(* as they are or damaged.                                                 *)

Mutations ==
    {"none", "bad_magic", "bad_version", "short", "short_bad_magic",
     "short_bad_version", "slot0_valid", "slot0_far", "defs_far", "blob_far",
     "dup_entry"}

\* where the definition header table starts, from the header of a written file
HeadersStart(bytes) == WordInt(WordAt(bytes, 80))

Mutate(bytes, m) ==
    CASE m = "none" -> bytes
      [] m = "bad_magic" -> Put(bytes, 0, <<88>>)
      [] m = "bad_version" -> Put(bytes, 4, <<13>>)
      [] m = "short" -> SubSeq(bytes, 1, 60)
      [] m = "short_bad_magic" -> SubSeq(Put(bytes, 3, <<88>>), 1, 4)
      [] m = "short_bad_version" -> SubSeq(Put(bytes, 4, <<13>>), 1, 103)
      \* slot 0 holds a record that decodes: a Type with an empty payload
      [] m = "slot0_valid" -> Put(bytes, HeadersStart(bytes) + 16, <<1>>)
      \* slot 0 holds a record whose payload lies outside the file
      [] m = "slot0_far" ->
            Put(bytes, HeadersStart(bytes) + 8, <<1, 0, 0, 0, 255, 255, 0, 0, 1>>)
      \* the definition header table is said to start 16 bytes below 2^32
      [] m = "defs_far" -> Put(bytes, 80, <<240, 255, 255, 255>>)
      \* the string blob is said to start at 2^32 - 1, and entry 0 of cnames
      \* is raised so that the sum, cut to 32 bits, is where its string is
      [] m = "blob_far" ->
            IF WordInt(WordAt(bytes, 48)) = 0
            THEN Put(bytes, 32, <<255, 255, 255, 255>>)
            ELSE Put(Put(bytes, 32, <<255, 255, 255, 255>>),
                     WordInt(WordAt(bytes, 44)),
                     WordAdd(WordAt(bytes, WordInt(WordAt(bytes, 44))),
                             WordAdd(WordAt(bytes, 32), U32(1)).word).word)
      \* entry 1 of cnames names the string entry 0 names
      [] m = "dup_entry" ->
            IF WordInt(WordAt(bytes, 48)) < 2 THEN bytes
            ELSE Put(bytes, WordInt(WordAt(bytes, 44)) + Str_HEADER_SIZE,
                     WordAt(bytes, WordInt(WordAt(bytes, 44))))
      \* entry 0 of cnames points far behind the end of the file
      [] m = "entry0_far" ->
            IF WordInt(WordAt(bytes, 48)) = 0 THEN bytes
            ELSE Put(bytes, WordInt(WordAt(bytes, 44)), <<255, 255, 255, 0>>)

-----------------------------------------------------------------------------
(* The per-table iterators of the reader. An ItemIter is the table it runs *)
(* over and its index; `yielded` keeps the items next has returned so far, *)
(* `ended` says next has returned None.                                    *)

TableNames == {"cnames", "tweakdb_ids", "resources", "strings", "definitions"}

\* ItemReader::get for the item type of the table
ItemReader_get(reader, table, index, checked) ==
    IF table = "definitions"
    THEN ItemReader_get_def(reader, reader.header.definitions, index, checked)
    ELSE ItemReader_get_str(reader, reader.header[table], index, checked)

\* IntoIterator for ItemReader
ItemReader_into_iter(table, checked) ==
    [table |-> table, index |-> 0, checked |-> checked, yielded |-> <<>>,
     ended |-> FALSE, panicked |-> FALSE]

\* next, lines 653-655: the result of get is returned, the index moves on;
\* a panic in get leaves next unfinished
ItemIter_yield(it, r) ==
    IF r.status = "panic" THEN [it EXCEPT !.panicked = TRUE]
    ELSE [it EXCEPT !.index = @ + 1, !.yielded = Append(@, r)]

\* a faulty next: no item follows one that is not Ok
ItemIter_next_until_err(reader, it) ==
    IF it.yielded # <<>> /\ it.yielded[Len(it.yielded)].status # "ok"
    THEN [it EXCEPT !.ended = TRUE]
    ELSE IF IndexBelow(it.index, reader.header[it.table].count)
    THEN ItemIter_yield(it, ItemReader_get(reader, it.table, it.index,
                                           it.checked))
    ELSE [it EXCEPT !.ended = TRUE]

\* Iterator::next for ItemIter
ItemIter_next(reader, it) ==
    IF IndexBelow(it.index, reader.header[it.table].count)
    THEN ItemIter_yield(it, ItemReader_get(reader, it.table, it.index,
                                           it.checked))
    ELSE [it EXCEPT !.ended = TRUE]

\* Iterator::size_hint for ItemIter: both bounds
ItemIter_size_hint(reader, it) ==
    WordInt(reader.header[it.table].count) - it.index

-----------------------------------------------------------------------------
(* The state machine: a caller that builds a bundle, writes it, reads the  *)
(* bytes (or a damaged copy) back, and goes on editing what it read.       *)

Result(op, pool, arg, index, status, err) ==
    [op |-> op, pool |-> pool, arg |-> arg, index |-> index,
     status |-> status, err |-> err]

NoInstr ==
    [operand |-> "none", target |-> <<>>, checked |-> FALSE, status |-> "none",
     stored |-> <<>>, read |-> <<>>]

PoolNames == {"cnames", "tdb_ids", "resources", "strings"}

NoIter ==
    [table |-> "none", index |-> 0, checked |-> FALSE, yielded |-> <<>>,
     ended |-> FALSE, panicked |-> FALSE]

Init ==
    /\ cnames = ScriptBundle_default.cnames
    /\ tdb_ids = ScriptBundle_default.tdb_ids
    /\ resources = ScriptBundle_default.resources
    /\ strings = ScriptBundle_default.strings
    /\ definitions = ScriptBundle_default.definitions
    /\ string_data = StringData_empty
    /\ phase = "bundle"
    /\ out = <<>>
    /\ input = <<>>
    /\ prev = NoBundle
    /\ result = Result("default", "", <<>>, 0, "ok", "none")
    /\ history = "built"
    /\ reads = 0
    /\ instr = NoInstr
    /\ iter = NoIter

TotalStrings == Len(cnames) + Len(tdb_ids) + Len(resources) + Len(strings)

\* an edit of the live bundle: earlier bytes say nothing about it any more
Edited ==
    /\ history' = "built"
    /\ out' = <<>>
    /\ input' = <<>>
    /\ prev' = NoBundle
    /\ reads' = 0
    /\ UNCHANGED <<string_data, phase, instr, iter>>

Editable == phase = "bundle" /\ reads < MaxReads

\* bundle.<pool>_mut().add(s)
add(pool, s) ==
    /\ Editable
    /\ TotalStrings < MaxStrings \/ Contains(Bundle[pool], s)
    /\ \E r \in {StringPool_add(Bundle[pool], s)} :
          /\ cnames' = IF pool = "cnames" THEN r.pool ELSE cnames
          /\ tdb_ids' = IF pool = "tdb_ids" THEN r.pool ELSE tdb_ids
          /\ resources' = IF pool = "resources" THEN r.pool ELSE resources
          /\ strings' = IF pool = "strings" THEN r.pool ELSE strings
          /\ result' = Result("add", pool, s, r.index, "ok", "none")
    /\ UNCHANGED definitions
    /\ Edited

\* bundle.define(def)
define(def) ==
    /\ Editable
    /\ Len(definitions) < MaxDefs
    /\ \E r \in {ScriptBundle_define(definitions, def)} :
          /\ definitions' = r.definitions
          /\ result' = Result("define", "", def, r.index,
                              IF r.panic THEN "panic" ELSE "ok",
                              IF r.panic THEN "definition index set to zero"
                              ELSE "none")
    /\ UNCHANGED <<cnames, tdb_ids, resources, strings>>
    /\ Edited

\* if let Some(d) = bundle.get_item_mut(index) { *d = def }, with an index
\* typed for the variant of def; of a lookup that found nothing only that is
\* kept
get_item_mut(index, def) ==
    /\ Editable
    /\ \E slot \in {def_item_get_mut(definitions, def.kind, index)} :
          IF slot = None
          THEN /\ definitions' = definitions
               /\ result' = Result("get_item_mut", "", <<>>, 0, "none", "none")
          ELSE /\ definitions' = [definitions EXCEPT ![index + 1] = def]
               /\ result' = Result("get_item_mut", "", def, index, "ok", "none")
    /\ UNCHANGED <<cnames, tdb_ids, resources, strings>>
    /\ Edited

\* bundle.into_owned(), on a bundle as it was obtained: the default one, or
\* one just read
into_owned ==
    /\ Editable
    /\ result.op \in {"default", "from_bytes"}
    /\ \E b \in {ScriptBundle_into_owned(Bundle)} :
          /\ cnames' = b.cnames
          /\ tdb_ids' = b.tdb_ids
          /\ resources' = b.resources
          /\ strings' = b.strings
          /\ definitions' = b.definitions
    /\ result' = Result("into_owned", "", <<>>, 0, "ok", "none")
    /\ UNCHANGED <<string_data, phase, out, input, prev, history, reads, instr, iter>>

\* bundle.into_writeable()
into_writeable ==
    /\ phase = "bundle"
    /\ reads < MaxReads
    /\ string_data' = ScriptBundle_into_writeable(Bundle)
    /\ phase' = "writeable"
    /\ result' = Result("into_writeable", "", <<>>, 0, "ok", "none")
    /\ out' = <<>>
    /\ input' = <<>>
    /\ prev' = NoBundle
    /\ UNCHANGED <<bundleVars, history, reads, instr, iter>>

\* writeable.to_bytes(); the cursor try_write returned is kept in the result
ToBytes ==
    /\ phase = "writeable"
    /\ \E r \in {to_bytes([bundle |-> Bundle, string_data |-> string_data])} :
          /\ out' = r.bytes
          /\ phase' = IF r.ok THEN "bytes" ELSE "failed"
          /\ result' = Result("to_bytes", "", <<>>, r.written,
                              IF r.ok THEN "ok" ELSE "err", r.err)
    /\ prev' = Bundle
    /\ input' = <<>>
    /\ UNCHANGED <<bundleVars, string_data, history, reads, instr, iter>>

Pristine == history \in {"read", "reread", "rebuilt"}

\* ScriptBundle::from_bytes on the bytes written, as they are or damaged (m),
\* in a build that checks arithmetic overflow or one that wraps (checked);
\* it is the file of a bundle built or edited that is also read damaged
FromBytes(m, checked) ==
    /\ phase = "bytes"
    /\ reads < MaxReads
    /\ m = "none" \/ reads = 0
    /\ \E r \in {from_bytes(Mutate(out, m), checked)} :
          /\ result' = Result("from_bytes", "", m, 0, r.status, r.err)
          /\ IF r.status = "ok"
             THEN /\ cnames' = r.value.cnames
                  /\ tdb_ids' = r.value.tdb_ids
                  /\ resources' = r.value.resources
                  /\ strings' = r.value.strings
                  /\ definitions' = r.value.definitions
                  /\ phase' = "bundle"
                  /\ reads' = reads + 1
                  /\ history' = IF m # "none" THEN "read"
                                ELSE IF Pristine THEN "reread" ELSE "rebuilt"
             ELSE /\ UNCHANGED <<bundleVars, history>>
                  /\ phase' = IF r.status = "panic" THEN "panicked" ELSE "rejected"
                  /\ reads' = reads
    /\ input' = Mutate(out, m)
    /\ string_data' = StringData_empty
    /\ UNCHANGED <<out, prev, instr, iter>>

Next ==
    \/ \E pool \in PoolNames, s \in StrInputs : add(pool, s)
    \/ \E def \in DefInputs : define(def)
    \/ \E index \in 1..MaxDefs, def \in DefInputs : get_item_mut(index, def)
    \/ into_owned
    \/ into_writeable
    \/ ToBytes
    \/ \E m \in Mutations, checked \in BOOLEAN : FromBytes(m, checked)

Spec == Init /\ [][Next]_vars

\* The caller that only builds bundles and writes them.
NextWrite ==
    \/ \E pool \in PoolNames, s \in StrInputs : add(pool, s)
    \/ \E def \in DefInputs : define(def)
    \/ \E index \in 1..MaxDefs, def \in DefInputs : get_item_mut(index, def)
    \/ into_owned
    \/ into_writeable
    \/ ToBytes

SpecWrite == Init /\ [][NextWrite]_vars

-----------------------------------------------------------------------------
(* instr.rs: the control-flow operands. An operand stores its offset less  *)
(* a bias and gives it back with the bias added. Offset holds an i16; its  *)
(* + and - are the plain operators, which panic on overflow in a build     *)
(* that checks overflow and wrap in one that does not.                     *)

I16_MIN == -(2 ^ 15)
I16_MAX == 2 ^ 15 - 1

\* How far from the ends of i16, and from zero, the offsets tried go.
Near == 12

Targets ==
    (I16_MIN..(I16_MIN + Near)) \cup ((0 - Near)..Near) \cup ((I16_MAX - Near)..I16_MAX)
    \cup {20, 30}

\* two's complement wrap-around to i16
wrapping(v) == ((v - I16_MIN) % (2 ^ 16)) + I16_MIN

\* the i16 result v of + or -
i16(v, checked, what) ==
    IF v >= I16_MIN /\ v <= I16_MAX THEN Ok(v)
    ELSE IF checked THEN Panic(what)
    ELSE Ok(wrapping(v))

\* Add<i16> for Offset
Offset_add(value, rhs, checked) ==
    i16(value + rhs, checked, "attempt to add with overflow")

\* Sub<i16> for Offset
Offset_sub(value, rhs, checked) ==
    i16(value - rhs, checked, "attempt to subtract with overflow")

\* Jump::new
Jump_new(target, checked) == Offset_sub(target, 3, checked)

\* Jump::target
Jump_target(stored, checked) == Offset_add(stored, 3, checked)

\* a struct of two fields, or the first panic of their evaluation
both(a, b) ==
    IF a.status # "ok" THEN a
    ELSE IF b.status # "ok" THEN b
    ELSE Ok(<<a.value, b.value>>)

\* a faulty Conditional::new: the bias of false_label is used for exit too
Conditional_new_one_bias(false_label, exit, checked) ==
    both(Offset_sub(false_label, 3, checked), Offset_sub(exit, 3, checked))

\* Conditional::new
Conditional_new(false_label, exit, checked) ==
    both(Offset_sub(false_label, 3, checked), Offset_sub(exit, 5, checked))

\* Conditional::false_label
Conditional_false_label(stored, checked) == Offset_add(stored[1], 3, checked)

\* Conditional::exit
Conditional_exit(stored, checked) == Offset_add(stored[2], 5, checked)

\* Switch::new
Switch_new(first_case, checked) == Offset_sub(first_case, 11, checked)

\* Switch::first_case
Switch_first_case(stored, checked) == Offset_add(stored, 11, checked)

\* SwitchLabel::new
SwitchLabel_new(next_case, body, checked) ==
    both(Offset_sub(next_case, 3, checked), Offset_sub(body, 5, checked))

\* SwitchLabel::next_case
SwitchLabel_next_case(stored, checked) == Offset_add(stored[1], 3, checked)

\* SwitchLabel::body
SwitchLabel_body(stored, checked) == Offset_add(stored[2], 5, checked)

\* an operand built from `target`, and what its accessors then return
Operand(operand, target, checked, built, read) ==
    [operand |-> operand, target |-> target, checked |-> checked,
     status |-> IF built.status # "ok" THEN built.status ELSE read.status,
     stored |-> built.value,
     read |-> IF built.status # "ok" THEN <<>> ELSE read.value]

\* the accessor is called on what the constructor returned, if it returned
accessed(built, read) == IF built.status # "ok" THEN built ELSE read

one(r) == IF r.status # "ok" THEN r ELSE Ok(<<r.value>>)

\* One operand is built in a behaviour: operands are plain values, and what
\* one does says nothing of another.
Frame ==
    UNCHANGED <<bundleVars, string_data, phase, out, input, prev, result,
                history, reads, iter>>

\* Jump::new(target).target(): Jump, JumpIfFalse, Skip, Context, the exit
\* of the Invoke instructions
JumpRoundTrip(target, checked) ==
    /\ instr.operand = "none"
    /\ \E built \in {Jump_new(target, checked)} :
          instr' = Operand("Jump", <<target>>, checked, built,
                     accessed(built, one(Jump_target(built.value, checked))))
    /\ Frame

\* Conditional::new(false_label, exit), then false_label() and exit()
ConditionalRoundTrip(false_label, exit, checked) ==
    /\ instr.operand = "none"
    /\ \E built \in {Conditional_new(false_label, exit, checked)} :
          instr' = Operand("Conditional", <<false_label, exit>>, checked, built,
                     accessed(built,
                        both(Conditional_false_label(built.value, checked),
                             Conditional_exit(built.value, checked))))
    /\ Frame

\* Switch::new(expr_type, first_case).first_case()
SwitchRoundTrip(first_case, checked) ==
    /\ instr.operand = "none"
    /\ \E built \in {Switch_new(first_case, checked)} :
          instr' = Operand("Switch", <<first_case>>, checked, built,
                     accessed(built, one(Switch_first_case(built.value, checked))))
    /\ Frame

\* SwitchLabel::new(next_case, body), then next_case() and body()
SwitchLabelRoundTrip(next_case, body, checked) ==
    /\ instr.operand = "none"
    /\ \E built \in {SwitchLabel_new(next_case, body, checked)} :
          instr' = Operand("SwitchLabel", <<next_case, body>>, checked, built,
                     accessed(built,
                        both(SwitchLabel_next_case(built.value, checked),
                             SwitchLabel_body(built.value, checked))))
    /\ Frame

\* The operand types of instr.rs and the bytes a value of each takes in the
\* encoding. Loc is Offset, an i16.
Width(type) ==
    CASE type \in {"i8", "u8", "bool"} -> 1
      [] type \in {"i16", "u16", "Loc"} -> 2
      [] type \in {"i32", "u32", "f32"} -> 4
      [] type \in {"i64", "u64", "f64", "[u8; 8]"} -> 8
      \* the pool indices: a String index takes 4 bytes, the others are
      \* padded to 8
      [] type = "StringIndex" -> 4
      [] OTHER -> 8

\* the fields of the operand structs, in declaration order
Struct_fields ==
    [Jump |-> <<"Loc">>,
     Conditional |-> <<"Loc", "Loc">>,
     Switch |-> <<"TypeIndex", "Loc">>,
     SwitchLabel |-> <<"Loc", "Loc">>,
     Breakpoint |-> <<"u16", "u32", "u16", "u16", "bool", "[u8; 8]">>]

\* the fields of InvokeStatic and InvokeVirtual, the exit being a Jump
Invoke_fields == <<"Loc", "u16", "FunctionIndex", "u16">>

RECURSIVE SumWidths(_, _)
SumWidths(fields, k) ==
    IF k = 0 THEN 0 ELSE Width(fields[k]) + SumWidths(fields, k - 1)

\* bytes from the start of the opcode tag to the end of field k
FieldEnd(fields, k) == 1 + SumWidths(fields, k)

NextInstr ==
    \/ \E target \in Targets, checked \in BOOLEAN : JumpRoundTrip(target, checked)
    \/ \E false_label \in Targets, exit \in Targets, checked \in BOOLEAN :
          ConditionalRoundTrip(false_label, exit, checked)
    \/ \E first_case \in Targets, checked \in BOOLEAN :
          SwitchRoundTrip(first_case, checked)
    \/ \E next_case \in Targets, body \in Targets, checked \in BOOLEAN :
          SwitchLabelRoundTrip(next_case, body, checked)

SpecInstr == Init /\ [][NextInstr]_vars

-----------------------------------------------------------------------------
(* instr.rs: the instructions and Instr::size.                             *)

\* enum Instr: the variants in tag order (tag 0x00 first) with the types of
\* their fields
Instr_variants ==
    << [name |-> "Nop", fields |-> <<>>],
       [name |-> "Null", fields |-> <<>>],
       [name |-> "I32One", fields |-> <<>>],
       [name |-> "I32Zero", fields |-> <<>>],
       [name |-> "I8Const", fields |-> <<"i8">>],
       [name |-> "I16Const", fields |-> <<"i16">>],
       [name |-> "I32Const", fields |-> <<"i32">>],
       [name |-> "I64Const", fields |-> <<"i64">>],
       [name |-> "U8Const", fields |-> <<"u8">>],
       [name |-> "U16Const", fields |-> <<"u16">>],
       [name |-> "U32Const", fields |-> <<"u32">>],
       [name |-> "U64Const", fields |-> <<"u64">>],
       [name |-> "F32Const", fields |-> <<"f32">>],
       [name |-> "F64Const", fields |-> <<"f64">>],
       [name |-> "CNameConst", fields |-> <<"CNameIndex">>],
       [name |-> "EnumConst", fields |-> <<"EnumIndex", "EnumValueIndex">>],
       [name |-> "StringConst", fields |-> <<"StringIndex">>],
       [name |-> "TweakDbIdConst", fields |-> <<"TweakDbIndex">>],
       [name |-> "ResourceConst", fields |-> <<"ResourceIndex">>],
       [name |-> "TrueConst", fields |-> <<>>],
       [name |-> "FalseConst", fields |-> <<>>],
       [name |-> "Breakpoint", fields |-> <<"Breakpoint">>],
       [name |-> "Assign", fields |-> <<>>],
       [name |-> "Target", fields |-> <<"Loc">>],
       [name |-> "Local", fields |-> <<"LocalIndex">>],
       [name |-> "Param", fields |-> <<"ParameterIndex">>],
       [name |-> "ObjectField", fields |-> <<"FieldIndex">>],
       [name |-> "ExternalVar", fields |-> <<>>],
       [name |-> "Switch", fields |-> <<"Switch">>],
       [name |-> "SwitchLabel", fields |-> <<"SwitchLabel">>],
       [name |-> "SwitchDefault", fields |-> <<>>],
       [name |-> "Jump", fields |-> <<"Jump">>],
       [name |-> "JumpIfFalse", fields |-> <<"Jump">>],
       [name |-> "Skip", fields |-> <<"Jump">>],
       [name |-> "Conditional", fields |-> <<"Conditional">>],
       [name |-> "Construct", fields |-> <<"u8", "TypeIndex">>],
       [name |-> "InvokeStatic", fields |-> <<"Jump", "u16", "FunctionIndex", "u16">>],
       [name |-> "InvokeVirtual", fields |-> <<"Jump", "u16", "CNameIndex", "u16">>],
       [name |-> "ParamEnd", fields |-> <<>>],
       [name |-> "Return", fields |-> <<>>],
       [name |-> "StructField", fields |-> <<"FieldIndex">>],
       [name |-> "Context", fields |-> <<"Jump">>],
       [name |-> "Equals", fields |-> <<"TypeIndex">>],
       [name |-> "RefStringEqualsString", fields |-> <<"TypeIndex">>],
       [name |-> "StringEqualsRefString", fields |-> <<"TypeIndex">>],
       [name |-> "NotEquals", fields |-> <<"TypeIndex">>],
       [name |-> "RefStringNotEqualsString", fields |-> <<"TypeIndex">>],
       [name |-> "StringNotEqualsRefString", fields |-> <<"TypeIndex">>],
       [name |-> "New", fields |-> <<"ClassIndex">>],
       [name |-> "Delete", fields |-> <<>>],
       [name |-> "This", fields |-> <<>>],
       [name |-> "Profile", fields |-> <<"Profile">>],
       [name |-> "ArrayClear", fields |-> <<"TypeIndex">>],
       [name |-> "ArraySize", fields |-> <<"TypeIndex">>],
       [name |-> "ArrayResize", fields |-> <<"TypeIndex">>],
       [name |-> "ArrayFindFirst", fields |-> <<"TypeIndex">>],
       [name |-> "ArrayFindFirstFast", fields |-> <<"TypeIndex">>],
       [name |-> "ArrayFindLast", fields |-> <<"TypeIndex">>],
       [name |-> "ArrayFindLastFast", fields |-> <<"TypeIndex">>],
       [name |-> "ArrayContains", fields |-> <<"TypeIndex">>],
       [name |-> "ArrayContainsFast", fields |-> <<"TypeIndex">>],
       [name |-> "ArrayCount", fields |-> <<"TypeIndex">>],
       [name |-> "ArrayCountFast", fields |-> <<"TypeIndex">>],
       [name |-> "ArrayPush", fields |-> <<"TypeIndex">>],
       [name |-> "ArrayPop", fields |-> <<"TypeIndex">>],
       [name |-> "ArrayInsert", fields |-> <<"TypeIndex">>],
       [name |-> "ArrayRemove", fields |-> <<"TypeIndex">>],
       [name |-> "ArrayRemoveFast", fields |-> <<"TypeIndex">>],
       [name |-> "ArrayGrow", fields |-> <<"TypeIndex">>],
       [name |-> "ArrayErase", fields |-> <<"TypeIndex">>],
       [name |-> "ArrayEraseFast", fields |-> <<"TypeIndex">>],
       [name |-> "ArrayLast", fields |-> <<"TypeIndex">>],
       [name |-> "ArrayElement", fields |-> <<"TypeIndex">>],
       [name |-> "ArraySort", fields |-> <<"TypeIndex">>],
       [name |-> "ArraySortByPredicate", fields |-> <<"TypeIndex">>],
       [name |-> "StaticArraySize", fields |-> <<"TypeIndex">>],
       [name |-> "StaticArrayFindFirst", fields |-> <<"TypeIndex">>],
       [name |-> "StaticArrayFindFirstFast", fields |-> <<"TypeIndex">>],
       [name |-> "StaticArrayFindLast", fields |-> <<"TypeIndex">>],
       [name |-> "StaticArrayFindLastFast", fields |-> <<"TypeIndex">>],
       [name |-> "StaticArrayContains", fields |-> <<"TypeIndex">>],
       [name |-> "StaticArrayContainsFast", fields |-> <<"TypeIndex">>],
       [name |-> "StaticArrayCount", fields |-> <<"TypeIndex">>],
       [name |-> "StaticArrayCountFast", fields |-> <<"TypeIndex">>],
       [name |-> "StaticArrayLast", fields |-> <<"TypeIndex">>],
       [name |-> "StaticArrayElement", fields |-> <<"TypeIndex">>],
       [name |-> "RefToBool", fields |-> <<>>],
       [name |-> "WeakRefToBool", fields |-> <<>>],
       [name |-> "EnumToI32", fields |-> <<"TypeIndex", "u8">>],
       [name |-> "I32ToEnum", fields |-> <<"TypeIndex", "u8">>],
       [name |-> "DynamicCast", fields |-> <<"ClassIndex", "u8">>],
       [name |-> "ToString", fields |-> <<"TypeIndex">>],
       [name |-> "ToVariant", fields |-> <<"TypeIndex">>],
       [name |-> "FromVariant", fields |-> <<"TypeIndex">>],
       [name |-> "VariantIsDefined", fields |-> <<>>],
       [name |-> "VariantIsRef", fields |-> <<>>],
       [name |-> "VariantIsArray", fields |-> <<>>],
       [name |-> "VariantTypeName", fields |-> <<>>],
       [name |-> "VariantToString", fields |-> <<>>],
       [name |-> "WeakRefToRef", fields |-> <<>>],
       [name |-> "RefToWeakRef", fields |-> <<>>],
       [name |-> "WeakRefNull", fields |-> <<>>],
       [name |-> "AsRef", fields |-> <<"TypeIndex">>],
       [name |-> "Deref", fields |-> <<"TypeIndex">>] >>

\* Instr::size: the arms of the match that give a fixed op_size
op_size(name) ==
    CASE name = "Breakpoint" -> 19
      [] name = "EnumConst" -> 16
      [] name \in {"InvokeStatic", "InvokeVirtual"} -> 14
      [] name = "Switch" -> 10
      [] name \in {"Construct", "EnumToI32", "I32ToEnum", "DynamicCast"} -> 9
      [] name \in {"I64Const", "U64Const", "F64Const", "CNameConst",
                     "TweakDbIdConst", "ResourceConst", "Local", "Param",
                     "ObjectField", "StructField", "Equals",
                     "RefStringEqualsString", "StringEqualsRefString",
                     "NotEquals", "RefStringNotEqualsString",
                     "StringNotEqualsRefString", "New", "ToString",
                     "ToVariant", "FromVariant", "AsRef", "Deref",
                     "ArrayClear", "ArraySize", "ArrayResize",
                     "ArrayFindFirst", "ArrayFindFirstFast", "ArrayFindLast",
                     "ArrayFindLastFast", "ArrayContains",
                     "ArrayContainsFast", "ArrayCount", "ArrayCountFast",
                     "ArrayPush", "ArrayPop", "ArrayInsert", "ArrayRemove",
                     "ArrayRemoveFast", "ArrayGrow", "ArrayErase",
                     "ArrayEraseFast", "ArrayLast", "ArrayElement",
                     "ArraySort", "ArraySortByPredicate", "StaticArraySize",
                     "StaticArrayFindFirst", "StaticArrayFindFirstFast",
                     "StaticArrayFindLast", "StaticArrayFindLastFast",
                     "StaticArrayContains", "StaticArrayContainsFast",
                     "StaticArrayCount", "StaticArrayCountFast",
                     "StaticArrayLast", "StaticArrayElement"} -> 8
      [] name \in {"I32Const", "U32Const", "F32Const", "StringConst",
                     "SwitchLabel", "Conditional"} -> 4
      [] name \in {"I16Const", "U16Const", "Jump", "JumpIfFalse", "Skip",
                     "Context"} -> 2
      [] name \in {"I8Const", "U8Const"} -> 1
      [] name \in {"Nop", "Null", "I32One", "I32Zero", "TrueConst",
                     "FalseConst", "Assign", "ExternalVar", "SwitchDefault",
                     "ParamEnd", "Return", "Delete", "This", "RefToBool",
                     "WeakRefToBool", "VariantIsDefined", "VariantIsRef",
                     "VariantIsArray", "VariantTypeName", "VariantToString",
                     "WeakRefToRef", "RefToWeakRef", "WeakRefNull"} -> 0

U16_MAX == 2 ^ 16 - 1

\* a + b on u16: panics on overflow in a build that checks it, wraps in one
\* that does not
u16_add(a, b, checked) ==
    IF a + b <= U16_MAX THEN Ok(a + b)
    ELSE IF checked THEN Panic("attempt to add with overflow")
    ELSE Ok((a + b) % (2 ^ 16))

\* 1 + op_size
with_tag(op, checked) ==
    IF op.status # "ok" THEN op ELSE u16_add(1, op.value, checked)

\* Instr::size of the variant `name`, len being function.len() of a Profile
Instr_size(name, len, checked) ==
    IF name = "Target" THEN Ok(0)
    ELSE IF name = "Profile"
    THEN with_tag(u16_add(5, len % (2 ^ 16), checked), checked)
    ELSE with_tag(Ok(op_size(name)), checked)

\* bytes a field of the given type takes in the encoding; a Profile is its
\* function (a 4-byte length, then the bytes) and one flag byte
Field_measure(type, len) ==
    IF type \in DOMAIN Struct_fields
    THEN SumWidths(Struct_fields[type], Len(Struct_fields[type]))
    ELSE IF type = "Profile" THEN 4 + len + 1
    ELSE Width(type)

RECURSIVE Fields_measure(_, _, _)
Fields_measure(fields, k, len) ==
    IF k = 0 THEN 0
    ELSE Field_measure(fields[k], len) + Fields_measure(fields, k - 1, len)

\* bytes the derived encoding of an instruction takes: the tag, the fields
Instr_measure(variant, len) ==
    1 + Fields_measure(variant.fields, Len(variant.fields), len)

\* The lengths of the function of a Profile that are tried.
ProfileLens == {0, 3, 65529, 65530, 65535, 65536, 65541}

\* instr.size() of one instruction; one instruction is sized in a behaviour
Size(tag, len, checked) ==
    /\ instr.operand = "none"
    /\ Instr_variants[tag + 1].name = "Profile" \/ len = 0
    /\ \E size \in {Instr_size(Instr_variants[tag + 1].name, len, checked)} :
          instr' = [operand |-> "Instr", tag |-> tag, len |-> len,
                    checked |-> checked, status |-> size.status,
                    size |-> size.value,
                    encoded |-> Instr_measure(Instr_variants[tag + 1], len)]
    /\ Frame

NextSize ==
    \E tag \in 0..(Len(Instr_variants) - 1), len \in ProfileLens, checked \in BOOLEAN :
       Size(tag, len, checked)

SpecSize == Init /\ [][NextSize]_vars

-----------------------------------------------------------------------------
(* A caller that opens a BundleReader on a file and drives one per-table   *)
(* iterator by hand.                                                       *)

\* The bundles whose files are iterated over.
IterBundles ==
    { ScriptBundle_default,
      [cnames |-> << <<>>, <<97>> >>, tdb_ids |-> <<>>, resources |-> <<>>,
       strings |-> << <<97>> >>,
       definitions |-> <<Definition_UNDEFINED,
                         [kind |-> "Type", name |-> 0, parent |-> 0,
                          body |-> <<7>>],
                         [kind |-> "Function", name |-> 1, parent |-> 1,
                          body |-> <<31, 7, 0>>]>>],
      [cnames |-> << <<97>> >>, tdb_ids |-> << <<97>> >>,
       resources |-> << <<>> >>, strings |-> <<>>,
       definitions |-> <<Definition_UNDEFINED,
                         [kind |-> "Function", name |-> 0, parent |-> 1,
                          body |-> <<>>]>>] }

\* The files: each bundle as written, and damaged.
IterInputs ==
    { Mutate(to_bytes([bundle |-> b,
                       string_data |-> ScriptBundle_into_writeable(b)]).bytes,
             m) :
        b \in IterBundles, m \in {"none", "slot0_valid", "entry0_far"} }

InitIter ==
    /\ cnames = ScriptBundle_default.cnames
    /\ tdb_ids = ScriptBundle_default.tdb_ids
    /\ resources = ScriptBundle_default.resources
    /\ strings = ScriptBundle_default.strings
    /\ definitions = ScriptBundle_default.definitions
    /\ string_data = StringData_empty
    /\ phase = "reader"
    /\ out = <<>>
    /\ input \in IterInputs
    /\ prev = NoBundle
    /\ result = Result("BundleReader::new", "", <<>>, 0,
                       BundleReader_new(input).status, "none")
    /\ history = "built"
    /\ reads = 0
    /\ instr = NoInstr
    /\ iter = NoIter

IterFrame ==
    UNCHANGED <<bundleVars, string_data, phase, out, input, prev, result,
                history, reads, instr>>

\* reader.<table>().into_iter(), in a build that checks overflow or not
IntoIter(table, checked) ==
    /\ result.status = "ok"
    /\ iter.table = "none"
    /\ iter' = ItemReader_into_iter(table, checked)
    /\ IterFrame

\* iter.next(); once it has returned None it returns None for ever
IterNext ==
    /\ iter.table # "none"
    /\ ~iter.ended /\ ~iter.panicked
    /\ \E reader \in {BundleReader_new(input).value} :
          iter' = ItemIter_next(reader, iter)
    /\ IterFrame

NextIter ==
    \/ \E table \in TableNames, checked \in BOOLEAN : IntoIter(table, checked)
    \/ IterNext

SpecIter == InitIter /\ [][NextIter]_vars

-----------------------------------------------------------------------------
(* Properties. *)

\* the live bundle is what from_bytes has just returned for the bytes of `prev`
JustRead == result.op = "from_bytes" /\ result.status = "ok"

\* C1: a bundle obtained by a successful read, moved into a WriteableBundle,
\* written with to_bytes and read again, comes back equal: the four pools
\* hold the same strings in the same order and the definition vector is the
\* same.
C1_ReadWriteRead == JustRead /\ history = "reread" => Bundle = prev

C1_Witness ==
    /\ JustRead
    /\ history = "reread"
    /\ Bundle = prev
    /\ Len(definitions) > 1
    /\ TotalStrings > 1

\* C2: a bundle built from ScriptBundle::default() by add and define calls,
\* with any strings (the empty string and strings holding a zero byte
\* included), written and read back, comes back with the same pools and the
\* same definitions.
C2_BuiltWriteRead == JustRead /\ history = "rebuilt" => Bundle = prev

\* the first four bytes of a buffer, or all of a shorter one
FirstFour(bytes) == SubSeq(bytes, 1, IF Len(bytes) < 4 THEN Len(bytes) ELSE 4)

WrongMagic(bytes) == FirstFour(bytes) # Header_MAGIC

WrongVersion(bytes) ==
    /\ ~WrongMagic(bytes)
    /\ Len(bytes) >= 8
    /\ WordAt(bytes, 4) # U32(Header_SUPPORTED_VERSION)

Failed(err) == result.status = "err" /\ result.err = err

\* C3: on a buffer of at least 104 bytes, a wrong magic fails with
\* BadInput("invalid magic number") and the right magic with a version
\* other than 14 fails with BadInput("unsupported version"); a buffer
\* shorter than 104 bytes fails with Incomplete whatever it holds; no bundle
\* is returned in any of these cases. (from_bytes returns the error of
\* BundleReader::new as it is.)
C3_HeaderChecks ==
    result.op = "from_bytes" =>
        /\ Len(input) < Header_SIZE => Failed("Incomplete")
        /\ Len(input) >= Header_SIZE /\ WrongMagic(input) =>
              Failed("BadInput: invalid magic number")
        /\ Len(input) >= Header_SIZE /\ WrongVersion(input) =>
              Failed("BadInput: unsupported version")

C3_Witness ==
    /\ result.op = "from_bytes"
    /\ Len(input) >= Header_SIZE
    /\ WrongVersion(input)
    /\ Failed("BadInput: unsupported version")

\* C3 as stated: a buffer of any length, shorter than the header included,
\* fails with BadInput("invalid magic number") when its first four bytes are
\* not REDS, and with BadInput("unsupported version") when the magic is right
\* and the version is not 14.
C3_AnyLength ==
    result.op = "from_bytes" =>
        /\ WrongMagic(input) => Failed("BadInput: invalid magic number")
        /\ WrongVersion(input) => Failed("BadInput: unsupported version")

\* the reader over the bytes last handed to from_bytes
InputReader == BundleReader_new(input).value

\* the table record i as ItemReader::get decodes it
Record(i) ==
    ItemReader_get_def(InputReader, InputReader.header.definitions, i, FALSE)

\* C4: after a successful read, definitions[0] is Undefined whatever the
\* table holds at slot 0, a record that does not decode included, and
\* definitions[i] for i >= 1 is the decoded record i of the table.
C4_SentinelAfterRead ==
    JustRead =>
        /\ definitions[1] = Definition_UNDEFINED
        /\ \A i \in 1..(Len(definitions) - 1) : Record(i) = Ok(definitions[i + 1])
        /\ ~IndexBelow(Len(definitions), InputReader.header.definitions.count)

C4_Witness ==
    /\ JustRead
    /\ Record(0).status = "err"
    /\ Len(definitions) > 1
    /\ definitions[1] = Definition_UNDEFINED

\* C5: in every state reached from ScriptBundle::default() or from a
\* successful read by define, add, get_item_mut and into_owned, the
\* definition vector is not empty and its element 0 is Undefined; define
\* never panics and returns an index of at least 1.
C5_SentinelKept ==
    /\ Len(definitions) >= 1
    /\ definitions[1] = Definition_UNDEFINED
    /\ result.op = "define" => result.status = "ok" /\ result.index >= 1

\* into_owned has run on a bundle that was read, holding a definition
C5_Witness ==
    /\ result.op = "into_owned"
    /\ reads > 0
    /\ Len(definitions) > 1
    /\ definitions[1] = Definition_UNDEFINED

\* what C6 says of one define(def) step
DefineEffect(def) ==
    /\ result'.index = Len(definitions)
    /\ Len(definitions') = Len(definitions) + 1
    /\ def_item_get(definitions', def.kind, result'.index) = Some(def)
    /\ SubSeq(definitions', 1, Len(definitions)) = definitions
    /\ <<cnames, tdb_ids, resources, strings>>' = <<cnames, tdb_ids, resources, strings>>
    /\ result.op = "define" => result'.index = result.index + 1

AddEffect(before, after, s, i) ==
    /\ ~Contains(before, s) => i = Len(before) /\ StringPool_len(after) = Len(before) + 1
    /\ Contains(before, s) => Some(i) = StringPool_get_index(before, s) /\ after = before
    /\ \A k \in 1..Len(before) :
          StringPool_get_index(after, before[k]) = StringPool_get_index(before, before[k])
    /\ StringPool_get_index(after, s) = Some(i)
    /\ string_item_get(after, i) = Some(s)
    /\ \A k \in 0..(StringPool_len(after) - 1) :
          StringPool_get_index(after, after[k + 1]) = Some(k)

\* C7: add(s) of a string the pool does not hold returns the length before
\* the call and the length grows by one; add(s) of a string it holds returns
\* the index it has and changes nothing; the indices of the strings held do
\* not change; afterwards get_index(s) is the index returned and the lookup
\* of that index yields s; the indices are exactly 0..len-1.
C7_PoolAdd ==
    [][\A pool \in PoolNames, s \in StrInputs :
          result'.op = "add" /\ result'.pool = pool /\ result'.arg = s /\ add(pool, s)
             => AddEffect(Bundle[pool], Bundle'[pool], s, result'.index)]_vars

C7_Witness ==
    /\ result.op = "add"
    /\ Len(Bundle[result.pool]) = 2
    /\ result.index = 0
    /\ StringPool_get_index(Bundle[result.pool], result.arg) = Some(0)

\* to_bytes has just returned `out`
Written == result.op = "to_bytes" /\ result.status = "ok"

\* the bytes a table descriptor t stands for, its items being `item` bytes
TableBytes(bytes, t, item) ==
    SubSeqFrom(bytes, WordInt(t.offset), WordInt(t.offset) + WordInt(t.count) * item)

\* the descriptor at `at` of the header carries the CRC-32 of its bytes
TableCrcOk(bytes, at, item) ==
    TableHeader_read(bytes, at).hash
        = crc32(TableBytes(bytes, TableHeader_read(bytes, at), item))

\* C8: in the bytes written, the CRC of each of the six table descriptors is
\* the CRC-32 of the bytes [offset, offset + byte length) of its table, the
\* definition header table as it is after back-patching included, and the
\* header's crc field is the CRC-32 of the 104 header bytes as written with
\* the crc field set to 0xDEADBEEF.
C8_Checksums ==
    Written =>
        /\ TableCrcOk(out, 32, 1)
        /\ TableCrcOk(out, 44, Str_HEADER_SIZE)
        /\ TableCrcOk(out, 56, Str_HEADER_SIZE)
        /\ TableCrcOk(out, 68, Str_HEADER_SIZE)
        /\ TableCrcOk(out, 80, Definition_HEADER_SIZE)
        /\ TableCrcOk(out, 92, Str_HEADER_SIZE)
        /\ WordAt(out, 24) = crc32(Put(SubSeq(out, 1, Header_SIZE), 24, CrcSentinel))

C8_Witness ==
    /\ Written
    /\ Len(definitions) > 1
    /\ TotalStrings > 1
    /\ TableCrcOk(out, 80, Definition_HEADER_SIZE)
    /\ WordAt(out, 24) = crc32(Put(SubSeq(out, 1, Header_SIZE), 24, CrcSentinel))

\* the members of a sequence, each once, in the order of first occurrence
RECURSIVE FirstOccurrences(_)
FirstOccurrences(items) ==
    IF items = <<>> THEN <<>>
    ELSE IF Contains(FirstOccurrences(SubSeq(items, 1, Len(items) - 1)),
                     items[Len(items)])
    THEN FirstOccurrences(SubSeq(items, 1, Len(items) - 1))
    ELSE Append(FirstOccurrences(SubSeq(items, 1, Len(items) - 1)), items[Len(items)])

RECURSIVE SumLens(_)
SumLens(items) ==
    IF items = <<>> THEN 0 ELSE Len(Head(items)) + 1 + SumLens(Tail(items))

AllStrings == cnames \o tdb_ids \o resources \o strings

\* the string blob of a written file
Blob(bytes) == TableBytes(bytes, TableHeader_read(bytes, 32), 1)

\* the entry written for index i of the pool whose descriptor is at `at`
Entry(bytes, at, i) ==
    WordInt(WordAt(bytes, WordInt(TableHeader_read(bytes, at).offset)
                          + i * Str_HEADER_SIZE))

\* the string s and its terminator stand in the blob at the position e
StandsAt(blob, e, s) ==
    /\ e + Len(s) + 1 <= Len(blob)
    /\ SubSeqFrom(blob, e, e + Len(s) + 1) = s \o <<0>>

PoolAt == [cnames |-> 44, tdb_ids |-> 56, resources |-> 68, strings |-> 92]

\* C9: the blob of a written bundle is made of each distinct string of the
\* four pools once, followed by a zero; its length (string_data.count) is the
\* sum of len+1 over the distinct strings; the entry written for a string is
\* the position where the string stands in the blob, counted from the blob's
\* start, so that equal strings of different pools have the same entry.
C9_Blob ==
    Written =>
        /\ Blob(out) = Flatten([i \in 1..Len(FirstOccurrences(AllStrings)) |->
                                   FirstOccurrences(AllStrings)[i] \o <<0>>])
        /\ WordInt(TableHeader_read(out, 32).count)
              = SumLens(FirstOccurrences(AllStrings))
        /\ \A p \in PoolNames : \A i \in 1..Len(Bundle[p]) :
              StandsAt(Blob(out), Entry(out, PoolAt[p], i - 1), Bundle[p][i])
        /\ \A p, q \in PoolNames :
              \A i \in 1..Len(Bundle[p]), j \in 1..Len(Bundle[q]) :
                 Bundle[p][i] = Bundle[q][j] =>
                    Entry(out, PoolAt[p], i - 1) = Entry(out, PoolAt[q], j - 1)

C9_Witness ==
    /\ Written
    /\ Len(cnames) = 1
    /\ resources = cnames
    /\ Len(cnames[1]) > 0
    /\ Blob(out) = cnames[1] \o <<0>>
    /\ Entry(out, 44, 0) = Entry(out, 68, 0)

\* C10: for each control-flow operand and every i16 offset T, those within
\* the bias of the i16 minimum and maximum included, building the operand
\* with T and reading the offset back returns T, and no arithmetic overflow
\* failure happens.
C10_OffsetRoundTrip ==
    instr.operand # "none" => instr.status = "ok" /\ instr.read = instr.target

\* the biases as the table gives them, per displacement field of an operand
TableBias ==
    [Jump |-> <<3>>, Conditional |-> <<3, 5>>, Switch |-> <<11>>,
     SwitchLabel |-> <<3, 5>>]

\* the place of each displacement field among the fields of its struct
DisplacementField ==
    [Jump |-> <<1>>, Conditional |-> <<1, 2>>, Switch |-> <<2>>,
     SwitchLabel |-> <<1, 2>>]

\* what the operand last built stores for its displacement fields
StoredOffsets ==
    IF instr.operand \in {"Jump", "Switch"} THEN <<instr.stored>> ELSE instr.stored

\* every logical offset less its bias is an i16
Representable(operand, target) ==
    \A k \in 1..Len(target) : target[k] - TableBias[operand][k] >= I16_MIN

\* C11: the value an operand stores for a control-flow offset is the logical
\* offset less the bias of the table, and the accessor returns the stored
\* value plus the same bias: 3 for Jump (JumpIfFalse, Skip, Context and the
\* exit of InvokeStatic and InvokeVirtual are Jumps), 3 and 5 for
\* Conditional false_label and exit, 11 for Switch first_case, 3 and 5 for
\* SwitchLabel next_case and body; each bias is the number of bytes from the
\* start of the opcode tag to the end of the displacement field. (Offsets
\* within the bias of the i16 minimum are left to C10.)
C11_Biases ==
    /\ \A operand \in DOMAIN TableBias : \A k \in 1..Len(TableBias[operand]) :
          TableBias[operand][k]
             = FieldEnd(Struct_fields[operand], DisplacementField[operand][k])
    /\ FieldEnd(Invoke_fields, 1) = TableBias.Jump[1]
    /\ instr.operand # "none" /\ Representable(instr.operand, instr.target) =>
          /\ instr.status = "ok"
          /\ \A k \in 1..Len(instr.target) :
                /\ StoredOffsets[k] = instr.target[k] - TableBias[instr.operand][k]
                /\ instr.read[k] = StoredOffsets[k] + TableBias[instr.operand][k]

C11_Witness ==
    /\ instr.operand = "Conditional"
    /\ instr.target = <<20, 30>>
    /\ instr.stored = <<17, 25>>
    /\ instr.read = <<20, 30>>

\* the operand sizes of the table of opcodes, by tag; Profile's is 5 + len
TableOperandSize(tag, len) ==
    CASE tag \in {0, 1, 2, 3, 19, 20, 22, 23, 27, 30, 38, 39, 49, 50, 86, 87}
              \cup (94..101) -> 0
      [] tag \in {4, 8} -> 1
      [] tag \in {5, 9, 31, 32, 33, 41} -> 2
      [] tag \in {6, 10, 12, 16, 29, 34} -> 4
      [] tag \in {7, 11, 13, 14, 17, 18, 24, 25, 26, 40, 48, 102, 103}
              \cup (42..47) \cup (52..85) \cup (91..93) -> 8
      [] tag \in {35, 88, 89, 90} -> 9
      [] tag = 28 -> 10
      [] tag \in {36, 37} -> 14
      [] tag = 15 -> 16
      [] tag = 21 -> 19
      [] tag = 51 -> 5 + len

\* C12: Instr::size() of every instruction is 1 plus the operand size of the
\* table for its opcode and is the number of bytes of its encoding; Target
\* reports 0; a Profile reports 1 + 4 + function.len() + 1 whatever the
\* length of its function, and the 16-bit result neither overflows nor is
\* truncated.
C12_SizeIsEncodedLength ==
    instr.operand = "Instr" =>
        /\ instr.status = "ok"
        /\ IF instr.tag = 23 THEN instr.size = 0
           ELSE /\ instr.size = 1 + TableOperandSize(instr.tag, instr.len)
                /\ instr.size = instr.encoded
        /\ instr.tag = 51 => instr.size = 1 + 4 + instr.len + 1

\* the definition stored at the index, when the index is in range and the
\* definition there has the variant of the index type
Stored(kind, index) ==
    { definitions[i] : i \in { j \in 1..Len(definitions) :
                                 j = index + 1 /\ definitions[j].kind = kind } }

\* what get, get_mut and bundle[index] make of a typed definition index,
\* `stored` being what stands there for it
DefLookup(kind, index, stored, got) ==
    /\ got \in IF stored = {} THEN {None} ELSE { Some(d) : d \in stored }
    /\ def_item_get_mut(definitions, kind, index) = got
    /\ definitions[1] = Definition_UNDEFINED /\ index = 0 => got = None
    /\ ScriptBundle_index(got, kind).status
          = IF stored = {} THEN "panic" ELSE "ok"

StrLookup(pool, index, got) ==
    /\ got = None <=> index >= Len(pool)
    /\ index < Len(pool) => got = Some(pool[index + 1])
    /\ ScriptBundle_index(got, "str").status = "panic" <=> index >= Len(pool)

\* C13: in every state of a bundle and for every typed definition index,
\* get_item and get_item_mut return the definition exactly when the index is
\* in range and the definition stored there has the variant of the index
\* type, and none otherwise (out of range, another variant, the Undefined
\* sentinel); for a string index they return none exactly when the index is
\* not below the length of the pool; bundle[index] panics exactly where the
\* fallible form returns none.
C13_TypedLookup ==
    phase = "bundle" =>
        /\ \A t \in 1..Len(DefKinds), index \in 0..(MaxDefs + 1) :
              DefLookup(DefKinds[t], index, Stored(DefKinds[t], index),
                        def_item_get(definitions, DefKinds[t], index))
        /\ \A pool \in PoolNames, index \in 0..(MaxStrings + 1) :
              StrLookup(Bundle[pool], index,
                        string_item_get(Bundle[pool], index))

\* get_item_mut has found a Function at index 1, where an index of any other
\* type finds nothing, and a pool holds a string
C13_Witness ==
    /\ phase = "bundle"
    /\ result.op = "get_item_mut" /\ result.status = "ok" /\ result.index = 1
    /\ Len(definitions) = 2 /\ definitions[2].kind = "Function"
    /\ Len(cnames) = 1

AllOk(items) == \A j \in 1..Len(items) : items[j].status = "ok"

IterCount == WordInt(BundleReader_new(input).value.header[iter.table].count)

\* C14 as stated: with record k the first malformed one, the items yielded
\* are the k records before it, then one Err, and nothing after it; with no
\* malformed record exactly `count` Ok items are yielded, then none.
C14_EndsAtFirstError ==
    iter.table # "none" =>
        /\ \A j \in 1..Len(iter.yielded) :
              iter.yielded[j].status # "ok" => j = Len(iter.yielded)
        /\ iter.ended /\ AllOk(iter.yielded) => Len(iter.yielded) = IterCount

\* C14, amended: the iterator yields one item for each of the `count`
\* records and then none; item i is what decoding record i alone gives, Ok
\* or Err, so a malformed record yields an Err and the records after it are
\* still decoded and yielded; size_hint is the number of items left. It is
\* collecting into a Result, as from_reader does, that stops at the first
\* Err.
C14_YieldsEveryRecord ==
    iter.table # "none" =>
        /\ Len(iter.yielded) = iter.index /\ iter.index <= IterCount
        /\ iter.ended => iter.index = IterCount
        /\ \A j \in 1..Len(iter.yielded) :
              iter.yielded[j] =
                  ItemReader_get(BundleReader_new(input).value, iter.table,
                                 j - 1, iter.checked)
        /\ ItemIter_size_hint(BundleReader_new(input).value, iter)
              = IterCount - Len(iter.yielded)
        /\ iter.ended /\ iter.table # "definitions" =>
              (collect_strs(BundleReader_new(input).value,
                            BundleReader_new(input).value.header[iter.table],
                            0, <<>>, iter.checked).status = "ok"
                 <=> AllOk(iter.yielded))

\* the iterator over cnames has yielded an Err for entry 0, then the string
\* of entry 1, then None
C14_Witness ==
    /\ iter.table = "cnames" /\ iter.ended
    /\ Len(iter.yielded) = 2
    /\ iter.yielded[1].status = "err" /\ iter.yielded[2] = Ok(<<97>>)

\* C15: from_bytes never panics: for every buffer it returns a bundle or an
\* error, also when the table offsets or string entries of the header are so
\* near 2^32 - 1 that table.offset + index * HEADER_SIZE or
\* string_data.offset + entry does not fit 32 bits; a record whose true
\* position lies outside the buffer gives an error, never data read from the
\* position cut to 32 bits.
C15_ReadNeverPanics ==
    result.op = "from_bytes" =>
        /\ result.status # "panic"
        /\ /\ result.arg = "blob_far"
           /\ WordInt(WordAt(input, 48)) > 0
           => result.status = "err"
        /\ /\ result.arg = "defs_far"
           /\ WordInt(WordAt(input, 84)) > 1
           => result.status = "err"

RECURSIVE PayloadBytes(_, _)
PayloadBytes(defs, i) ==
    IF i > Len(defs) THEN 0 ELSE Len(defs[i].body) + PayloadBytes(defs, i + 1)

Start(at) == WordInt(TableHeader_read(out, at).offset)

Count(at) == WordInt(TableHeader_read(out, at).count)

End(at, item) == Start(at) + Count(at) * item

\* the definition header at slot i of the table written
Slot(i) == DefinitionHeader_read(out, Start(80) + i * Definition_HEADER_SIZE)

\* payload i lies where header i says, after the payloads before it
PayloadAt(i) ==
    /\ WordInt(Slot(i).offset)
          = Len(out) - PayloadBytes(definitions, i + 1)
    /\ WordInt(Slot(i).size) = Len(definitions[i + 1].body)
    /\ SubSeqFrom(out, WordInt(Slot(i).offset),
                  WordInt(Slot(i).offset) + WordInt(Slot(i).size))
          = Definition_bytes(definitions[i + 1])
    /\ WordInt(Slot(i).offset) + WordInt(Slot(i).size) <= Len(out)

Referenced(pool, i) ==
    ItemReader_get_str(InputReader, TableHeader_read(input, PoolAt[pool]), i,
                       FALSE)

\* C18: after a successful read each pool has as many entries as its table
\* counts, and the string at index i of the pool is the one the i-th entry
\* of the table names, also when two entries of a table name equal strings
\* (the same offset, or the same text).
C18_PoolMatchesTable ==
    JustRead =>
        \A pool \in PoolNames :
            /\ Len(Bundle[pool])
                  = WordInt(TableHeader_read(input, PoolAt[pool]).count)
            /\ \A i \in 0..(Len(Bundle[pool]) - 1) :
                  Referenced(pool, i) = Ok(Bundle[pool][i + 1])

====
